---------------------------- MODULE Spec2Model ----------------------------
(***************************************************************************)
(* A model of the FIR extraction pipeline (fir_extractor/).                *)
(*                                                                         *)
(*   SpecOcr    run_ocr_on_images: per-page reading-order reconstruction   *)
(*              and the join/strip of the document text (ocr_engine.py).   *)
(*                                                                         *)
(* Text is modelled at character level: a Python str is a sequence of      *)
(* one-character strings, so that join, strip, splitlines and the regular  *)
(* expressions are computed as the code computes them.                     *)
(***************************************************************************)
EXTENDS Integers, Sequences, FiniteSets, TLC

VARIABLES
    \* ---- main and the worker pool (main.py) ----
    main_pc,           \* "idle", "start", "pool" (the imap loop), "save", "done"
    cpu_count,         \* multiprocessing.cpu_count()
    ocr_available,     \* whether RapidOCR can be imported and constructed on this machine
    pdf_files,         \* glob's result: the documents, pdf_files[i] being path i
    task_next,         \* the next index of pdf_files the pool hands to a worker
    workers,           \* per worker process: its task (0: none) and its _rapid_ocr_instance
    outbox,            \* results of finished tasks that imap has not yielded yet
    results,           \* main's results list
    excel_calls,       \* history: the data_list of each save_to_excel call
    output_file,       \* the rows of FIR_Extracted.xlsx; <<>> while no file is written
    parse_called,      \* history: the indices whose process_pdf reached parse_fir_fields
    \* ---- run_ocr_on_images (ocr_engine.py) ----
    ocr_pc,            \* "idle", "loop" while the page loop runs, "done" once returned
    n_images,          \* len(images): the page bitmaps are opaque
    page_idx,          \* number of pages already iterated
    all_lines,         \* all_lines: List[str]
    positioned_lines,  \* the sorted positioned_lines of the last completed page
    full_text,         \* the returned string
    line_page,         \* history: for each entry of all_lines, the page that appended it
    n_nonempty,        \* history: OCR items with non-empty text returned so far
    n_pages_ok,        \* history: pages whose OCR call returned
    \* ---- clean_text (parser.py) ----
    cl_input,          \* the argument of the first call: a str or None
    cl_out,            \* the values returned by clean_text, each call fed the previous result
    \* ---- parse_fir_fields (parser.py) ----
    pf_pc,             \* "idle", "call", "returned"
    pf_text,           \* the argument
    pf_fields,         \* the returned dict
    \* ---- _get_rapid_ocr (ocr_engine.py), the threads of one worker process ----
    rapid_ocr_instance, \* _rapid_ocr_instance: None or the RapidOCR object
    rapid_ocr_lock,     \* _rapid_ocr_lock: "free" or <<t>>, t the thread holding it
    threads,            \* per thread: where it is in _get_rapid_ocr, the calls it has begun,
                        \* and whether its current call saw None at the first test
    n_constructed,      \* history: the RapidOCR() calls that returned
    returns             \* history: what each returned call of _get_rapid_ocr yielded

batchVars == <<main_pc, cpu_count, ocr_available, pdf_files, task_next, workers, outbox,
               results, excel_calls, output_file, parse_called>>

ocrVars == <<ocr_pc, n_images, page_idx, all_lines, positioned_lines,
             full_text, line_page, n_nonempty, n_pages_ok>>

cleanVars == <<cl_input, cl_out>>

parseVars == <<pf_pc, pf_text, pf_fields>>

lockVars == <<rapid_ocr_instance, rapid_ocr_lock, threads, n_constructed, returns>>

vars == <<batchVars, ocrVars, cleanVars, parseVars, lockVars>>

-----------------------------------------------------------------------------
(* Bounds *)

MaxPages == 2
MaxItems == 2
MaxTokens == 5
MaxLines == 3
MaxDocs == 3
MaxCpus == 2
MaxThreads == 2
MaxCalls == 2

-----------------------------------------------------------------------------
(* Python str helpers, on sequences of one-character strings *)

NL == "\n"
FF == "\f"
CR == "\r"

\* The characters str.strip() and \s treat as whitespace (those of the alphabet used).
Whitespace == {" ", "\t", NL, CR, FF}

RECURSIVE LStrip(_)
LStrip(s) == IF s # <<>> /\ Head(s) \in Whitespace THEN LStrip(Tail(s)) ELSE s

RECURSIVE RStrip(_)
RStrip(s) ==
    IF s # <<>> /\ s[Len(s)] \in Whitespace THEN RStrip(SubSeq(s, 1, Len(s) - 1)) ELSE s

\* str.strip()
Strip(s) == RStrip(LStrip(s))

\* sep.join(lines)
RECURSIVE Join(_, _)
Join(lines, sep) ==
    IF lines = <<>> THEN <<>>
    ELSE IF Len(lines) = 1 THEN lines[1]
    ELSE lines[1] \o sep \o Join(Tail(lines), sep)

\* s.split(sep) for a one-character sep: always at least one piece.
RECURSIVE Split(_, _)
Split(s, c) ==
    IF \A i \in 1..Len(s) : s[i] # c THEN <<s>>
    ELSE LET k == CHOOSE i \in 1..Len(s) : s[i] = c /\ \A j \in 1..(i - 1) : s[j] # c
         IN  <<SubSeq(s, 1, k - 1)>> \o Split(SubSeq(s, k + 1, Len(s)), c)

RECURSIVE Count(_, _)
Count(s, c) == IF s = <<>> THEN 0 ELSE (IF Head(s) = c THEN 1 ELSE 0) + Count(Tail(s), c)

RECURSIVE MinOf(_)
MinOf(ns) ==
    IF Len(ns) = 1 THEN ns[1]
    ELSE LET m == MinOf(Tail(ns)) IN IF ns[1] <= m THEN ns[1] ELSE m

-----------------------------------------------------------------------------
(* Python's re, as far as parser.py uses it: a backtracking matcher.  A
   pattern is a tree; matching a node at a position yields the outcomes (end
   position, captured groups) in the order the backtracking engine tries them,
   so the first outcome is the match re returns. *)

UpperCase == <<"A", "B", "C", "D", "E", "F", "G", "H", "I", "J", "K", "L", "M",
               "N", "O", "P", "Q", "R", "S", "T", "U", "V", "W", "X", "Y", "Z">>
LowerCase == <<"a", "b", "c", "d", "e", "f", "g", "h", "i", "j", "k", "l", "m",
               "n", "o", "p", "q", "r", "s", "t", "u", "v", "w", "x", "y", "z">>

Range(q) == { q[i] : i \in 1..Len(q) }

Upper == Range(UpperCase)
Lower == Range(LowerCase)
Digit == {"0", "1", "2", "3", "4", "5", "6", "7", "8", "9"}
Alpha == Upper \cup Lower
AlNum == Alpha \cup Digit
WordChar == AlNum \cup {"_"}

ToLower(c) ==
    IF c \in Upper THEN LowerCase[CHOOSE i \in 1..26 : UpperCase[i] = c] ELSE c

\* Pattern nodes
Ch(cs) == [t |-> "set", cs |-> cs]                         \* one character of a class
AnyCh == [t |-> "any"]                                     \* .
Bol == [t |-> "bol"]                                       \* ^
Eol == [t |-> "eol"]                                       \* $
WordB == [t |-> "wordb"]                                   \* \b
Cat(rs) == [t |-> "cat", rs |-> rs]                        \* r1 r2 ...
Alt(rs) == [t |-> "alt", rs |-> rs]                        \* r1|r2|...
Rep(r, lo, hi) == [t |-> "rep", r |-> r, lo |-> lo, hi |-> hi]   \* r{lo,hi}, greedy; hi = -1: no limit
Grp(n, r) == [t |-> "grp", n |-> n, r |-> r]               \* capturing group n
Lit(q) == Cat([i \in 1..Len(q) |-> Ch({q[i]})])            \* a literal string
Star(r) == Rep(r, 0, -1)
Plus(r) == Rep(r, 1, -1)
Opt(r) == Rep(r, 0, 1)
SpaceCh == Ch(Whitespace)                                  \* \s
DigitCh == Ch(Digit)                                       \* \d

\* Flags: i = IGNORECASE, m = MULTILINE, s = DOTALL
Flags(i, m, d) == [i |-> i, m |-> m, s |-> d]
NoFlags == Flags(FALSE, FALSE, FALSE)

NoCaps == << <<>>, <<>> >>

InClass(c, cs, ic) ==
    IF ic THEN \E d \in cs : ToLower(d) = ToLower(c) ELSE c \in cs

IsWordAt(s, i) == i >= 1 /\ i <= Len(s) /\ s[i] \in WordChar

RECURSIVE Match(_, _, _, _, _), MatchCat(_, _, _, _, _, _), MatchCatAll(_, _, _, _, _),
          MatchAlt(_, _, _, _, _, _), MatchRep(_, _, _, _, _, _), MatchRepAll(_, _, _, _, _, _),
          SetGroup(_, _, _)

\* The outcomes of matching node r against s from position i (the next
\* character is s[i]).
Match(r, s, i, caps, fl) ==
    LET here == << [pos |-> i, caps |-> caps] >>
    IN  CASE r.t = "set" ->
                IF i <= Len(s) /\ InClass(s[i], r.cs, fl.i)
                THEN << [pos |-> i + 1, caps |-> caps] >> ELSE <<>>
          [] r.t = "any" ->
                IF i <= Len(s) /\ (fl.s \/ s[i] # NL)
                THEN << [pos |-> i + 1, caps |-> caps] >> ELSE <<>>
          [] r.t = "bol" ->
                IF i = 1 \/ (fl.m /\ s[i - 1] = NL) THEN here ELSE <<>>
          [] r.t = "eol" ->
                IF \/ i = Len(s) + 1
                   \/ (fl.m /\ s[i] = NL)
                   \/ (i = Len(s) /\ s[i] = NL)
                THEN here ELSE <<>>
          [] r.t = "wordb" ->
                IF IsWordAt(s, i - 1) # IsWordAt(s, i) THEN here ELSE <<>>
          [] r.t = "cat" -> MatchCat(r.rs, 1, s, i, caps, fl)
          [] r.t = "alt" -> MatchAlt(r.rs, 1, s, i, caps, fl)
          [] r.t = "rep" -> MatchRep(r, s, i, caps, fl, 0)
          [] r.t = "grp" -> SetGroup(Match(r.r, s, i, caps, fl), r.n, i)

SetGroup(outs, n, start) ==
    [k \in 1..Len(outs) |->
        [pos |-> outs[k].pos,
         caps |-> [outs[k].caps EXCEPT ![n] = <<start, outs[k].pos>>]]]

MatchCat(rs, k, s, i, caps, fl) ==
    IF k > Len(rs) THEN << [pos |-> i, caps |-> caps] >>
    ELSE MatchCatAll(rs, k, s, Match(rs[k], s, i, caps, fl), fl)

MatchCatAll(rs, k, s, outs, fl) ==
    IF outs = <<>> THEN <<>>
    ELSE MatchCat(rs, k + 1, s, Head(outs).pos, Head(outs).caps, fl)
            \o MatchCatAll(rs, k, s, Tail(outs), fl)

MatchAlt(rs, k, s, i, caps, fl) ==
    IF k > Len(rs) THEN <<>>
    ELSE Match(rs[k], s, i, caps, fl) \o MatchAlt(rs, k + 1, s, i, caps, fl)

\* Greedy: one more iteration is tried before stopping here.
MatchRep(r, s, i, caps, fl, n) ==
    LET more == IF r.hi = -1 \/ n < r.hi
                THEN MatchRepAll(r, s, i, Match(r.r, s, i, caps, fl), fl, n) ELSE <<>>
        stop == IF n >= r.lo THEN << [pos |-> i, caps |-> caps] >> ELSE <<>>
    IN  more \o stop

MatchRepAll(r, s, i, outs, fl, n) ==
    IF outs = <<>> THEN <<>>
    ELSE (IF Head(outs).pos > i
          THEN MatchRep(r, s, Head(outs).pos, Head(outs).caps, fl, n + 1) ELSE <<>>)
            \o MatchRepAll(r, s, i, Tail(outs), fl, n)

NoMatch == [found |-> FALSE, start |-> 0, end |-> 0, caps |-> NoCaps]

\* re.search(r, s, flags) from position i on: the leftmost match.
RECURSIVE SearchFrom(_, _, _, _)
SearchFrom(r, s, i, fl) ==
    IF i > Len(s) + 1 THEN NoMatch
    ELSE LET outs == Match(r, s, i, NoCaps, fl)
         IN  IF outs # <<>>
             THEN [found |-> TRUE, start |-> i, end |-> outs[1].pos, caps |-> outs[1].caps]
             ELSE SearchFrom(r, s, i + 1, fl)

Search(r, s, fl) == SearchFrom(r, s, 1, fl)

\* m.group(n) (the text of group n; m.group(0) is the whole match)
Group(s, m, n) ==
    IF n = 0 THEN SubSeq(s, m.start, m.end - 1)
    ELSE IF m.caps[n] = <<>> THEN <<>>
    ELSE SubSeq(s, m.caps[n][1], m.caps[n][2] - 1)

\* re.sub(r, repl, s) for a pattern that matches no empty string: the
\* non-overlapping matches, leftmost first, replaced by repl in one pass.
RECURSIVE Sub(_, _, _)
Sub(r, repl, s) ==
    LET m == Search(r, s, NoFlags)
    IN  IF ~m.found THEN s
        ELSE SubSeq(s, 1, m.start - 1) \o repl \o Sub(r, repl, SubSeq(s, m.end, Len(s)))

\* s.replace(old, new)
RECURSIVE Replace(_, _, _)
Replace(s, old, new) ==
    IF Len(s) < Len(old) THEN s
    ELSE IF SubSeq(s, 1, Len(old)) = old
         THEN new \o Replace(SubSeq(s, Len(old) + 1, Len(s)), old, new)
         ELSE <<Head(s)>> \o Replace(Tail(s), old, new)

\* The line boundaries of str.splitlines() (those of the alphabet used).
LineBreaks == {NL, CR, FF}

\* s.splitlines(): no piece after a final line break; "\r\n" is one break.
RECURSIVE SplitLines(_)
SplitLines(s) ==
    IF s = <<>> THEN <<>>
    ELSE IF \A i \in 1..Len(s) : s[i] \notin LineBreaks THEN <<s>>
    ELSE LET k == CHOOSE i \in 1..Len(s) :
                     s[i] \in LineBreaks /\ \A j \in 1..(i - 1) : s[j] \notin LineBreaks
             n == IF s[k] = CR /\ k < Len(s) /\ s[k + 1] = NL THEN k + 2 ELSE k + 1
         IN  <<SubSeq(s, 1, k - 1)>> \o SplitLines(SubSeq(s, n, Len(s)))

-----------------------------------------------------------------------------
(* clean_text (parser.py:4-28) *)

\* A Python argument that is a str or None.
PyStr(s) == [none |-> FALSE, s |-> s]
PyNone == [none |-> TRUE, s |-> <<>>]

CidPattern == Cat(<<Lit(<<"(", "c", "i", "d", ":">>), Plus(DigitCh), Lit(<<")">>)>>)   \* \(cid:\d+\)
HyphenBreakPattern == Lit(<<"-", NL>>)                                                \* -\n
BlankRunPattern == Rep(Ch({NL}), 3, -1)                                               \* \n{3,}

RECURSIVE PopLeadingEmpty(_)
PopLeadingEmpty(lines) ==
    IF lines # <<>> /\ Head(lines) = <<>> THEN PopLeadingEmpty(Tail(lines)) ELSE lines

RECURSIVE PopTrailingEmpty(_)
PopTrailingEmpty(lines) ==
    IF lines # <<>> /\ lines[Len(lines)] = <<>>
    THEN PopTrailingEmpty(SubSeq(lines, 1, Len(lines) - 1)) ELSE lines

clean_text(text) ==
    IF text.none \/ text.s = <<>> THEN <<>>
    ELSE LET t1 == Sub(CidPattern, <<>>, text.s)
             t2 == Replace(Replace(t1, <<CR, NL>>, <<NL>>), <<CR>>, <<NL>>)
             t3 == Sub(HyphenBreakPattern, <<>>, t2)
             t4 == Sub(BlankRunPattern, <<NL, NL>>, t3)
             split == SplitLines(t4)
             lines == [i \in 1..Len(split) |-> Strip(split[i])]
         IN  Join(PopTrailingEmpty(PopLeadingEmpty(lines)), <<NL>>)

CleanIdle ==
    /\ cl_input = PyNone
    /\ cl_out = <<>>

-----------------------------------------------------------------------------
(* parse_fir_fields (parser.py:31-192) *)

FieldNames ==
    << "Police_Station", "FIR_Number", "FIR_Date", "FIR_Time", "District", "Year",
       "Acts", "Sections", "Occurrence_Date", "Occurrence_Time", "GD_Entry_No",
       "Info_Type", "Place_of_Occurrence", "Direction_Distance_from_PS",
       "Address_of_Occurrence", "Complainant_Name", "Father_Name", "DOB",
       "Nationality", "Mobile_Number", "Present_Address", "Permanent_Address",
       "Accused_Count", "FIR_Contents", "Investigating_Officer", "Rank" >>

\* parser.py:34-61
EmptyFields == [k \in Range(FieldNames) |-> <<>>]

Seps == Ch({":", "-"} \cup Whitespace)                     \* [:\-\s]
NumberCh == Ch(AlNum \cup {"-", "/"})                      \* [A-Za-z0-9\-/]
NameCh == Ch(Alpha \cup Whitespace \cup {"."})             \* [A-Za-z\s.]
NoDot == Cat(<<Lit(<<"N", "o">>), Opt(Lit(<<".">>))>>)                           \* No\.?
NumberTail == Cat(<<NoDot, Star(SpaceCh), Star(Seps), Grp(1, Plus(NumberCh))>>)
StationCh == Ch(AlNum \cup Whitespace \cup {"-", "/", "&", ".", ","})

\* parser.py:72-77
FirNumberPatterns ==
    << Cat(<<Lit(<<"F">>), Star(SpaceCh), Lit(<<"I">>), Star(SpaceCh), Lit(<<"R">>), Star(SpaceCh),
             Star(Ch({"#", ":"})), Star(SpaceCh), NumberTail>>),
       Cat(<<Lit(<<"F", "I", "R">>), Star(SpaceCh), NumberTail>>),
       Cat(<<Lit(<<"F", ".", "I", ".", "R", ".">>), Star(SpaceCh), NumberTail>>),
       Cat(<<Bol, Lit(<<"N", "o", ".">>), Star(SpaceCh), Star(Seps), Grp(1, Plus(NumberCh))>>) >>

\* parser.py:82  (\d{1,2}[/-]\d{1,2}[/-]\d{2,4})
DatePattern ==
    Grp(1, Cat(<<Rep(DigitCh, 1, 2), Ch({"/", "-"}), Rep(DigitCh, 1, 2), Ch({"/", "-"}),
                 Rep(DigitCh, 2, 4)>>))

\* parser.py:87  (\d{1,2}[:\.]\d{2}(?:\s?(?:AM|PM|am|pm|hrs)?)?)
TimePattern ==
    Grp(1, Cat(<<Rep(DigitCh, 1, 2), Ch({":", "."}), Rep(DigitCh, 2, 2),
                 Opt(Cat(<<Opt(SpaceCh),
                           Opt(Alt(<<Lit(<<"A", "M">>), Lit(<<"P", "M">>), Lit(<<"a", "m">>), Lit(<<"p", "m">>), Lit(<<"h", "r", "s">>)>>))>>))>>))

\* parser.py:92-95
StationPatterns ==
    << Cat(<<Alt(<<Cat(<<Lit(<<"P", "o", "l", "i", "c", "e">>), Star(SpaceCh), Lit(<<"S", "t", "a", "t", "i", "o", "n">>)>>),
                   Cat(<<Lit(<<"P">>), Opt(Lit(<<".">>)), Lit(<<"S">>), Opt(Lit(<<".">>))>>),
                   Lit(<<"S", "t", "a", "t", "i", "o", "n">>)>>),
             Star(SpaceCh), Plus(Seps), Grp(1, Plus(StationCh))>>),
       Cat(<<Bol, Lit(<<"S", "t", "a", "t", "i", "o", "n">>), Star(SpaceCh), Plus(Seps), Grp(1, Plus(StationCh))>>) >>

\* parser.py:100  District\s*[:\-\s]+([A-Za-z\s]+)
DistrictPattern ==
    Cat(<<Lit(<<"D", "i", "s", "t", "r", "i", "c", "t">>), Star(SpaceCh), Plus(Seps), Grp(1, Plus(Ch(Alpha \cup Whitespace)))>>)

\* parser.py:105  \b(20\d{2}|19\d{2})\b
YearPattern ==
    Cat(<<WordB, Grp(1, Alt(<<Cat(<<Lit(<<"2", "0">>), Rep(DigitCh, 2, 2)>>),
                              Cat(<<Lit(<<"1", "9">>), Rep(DigitCh, 2, 2)>>)>>)), WordB>>)

\* parser.py:110-113
GdPatterns ==
    << Cat(<<Lit(<<"G">>), Opt(Lit(<<".">>)), Lit(<<"D">>), Opt(Lit(<<".">>)), Star(SpaceCh), Lit(<<"E", "n", "t", "r", "y">>), Star(SpaceCh),
             NumberTail>>),
       Cat(<<Lit(<<"G", "D">>), Star(SpaceCh), NumberTail>>) >>

\* parser.py:118  (\+?91[\-\s]?\d{10}|\b\d{10}\b)
MobilePattern ==
    Grp(1, Alt(<<Cat(<<Opt(Lit(<<"+">>)), Lit(<<"9", "1">>), Opt(Ch({"-"} \cup Whitespace)), Rep(DigitCh, 10, 10)>>),
                 Cat(<<WordB, Rep(DigitCh, 10, 10), WordB>>)>>))

\* parser.py:123  Acts?\s*[:\-\s]+([A-Za-z0-9,\s/&-]+)
ActsPattern ==
    Cat(<<Lit(<<"A", "c", "t">>), Opt(Lit(<<"s">>)), Star(SpaceCh), Plus(Seps),
          Grp(1, Plus(Ch(AlNum \cup Whitespace \cup {",", "/", "&", "-"})))>>)

\* parser.py:127  Sections?\s*[:\-\s]+([A-Za-z0-9,\s/\-]+)
SectionsPattern ==
    Cat(<<Lit(<<"S", "e", "c", "t", "i", "o", "n">>), Opt(Lit(<<"s">>)), Star(SpaceCh), Plus(Seps),
          Grp(1, Plus(Ch(AlNum \cup Whitespace \cup {",", "/", "-"})))>>)

\* parser.py:132-135
ComplainantPatterns ==
    << Cat(<<Lit(<<"C", "o", "m", "p", "l", "a", "i", "n", "a", "n", "t">>), Star(SpaceCh), Opt(Lit(<<"N", "a", "m", "e">>)), Star(SpaceCh), Plus(Seps),
             Grp(1, Plus(NameCh))>>),
       Cat(<<Lit(<<"I", "n", "f", "o", "r", "m", "a", "n", "t">>), Star(SpaceCh), Opt(Lit(<<"N", "a", "m", "e">>)), Star(SpaceCh), Plus(Seps),
             Grp(1, Plus(NameCh))>>) >>

\* parser.py:139  Father(?:'s)?\s*Name\s*[:\-\s]+([A-Za-z\s.]+)
FatherPattern ==
    Cat(<<Lit(<<"F", "a", "t", "h", "e", "r">>), Opt(Lit(<<"'", "s">>)), Star(SpaceCh), Lit(<<"N", "a", "m", "e">>), Star(SpaceCh), Plus(Seps),
          Grp(1, Plus(NameCh))>>)

\* parser.py:144  Present\s+Address\s*[:\-\s]+(.{10,300})
PresentAddressPattern ==
    Cat(<<Lit(<<"P", "r", "e", "s", "e", "n", "t">>), Plus(SpaceCh), Lit(<<"A", "d", "d", "r", "e", "s", "s">>), Star(SpaceCh), Plus(Seps),
          Grp(1, Rep(AnyCh, 10, 300))>>)

\* parser.py:148  Permanent\s+Address\s*[:\-\s]+(.{10,300})
PermanentAddressPattern ==
    Cat(<<Lit(<<"P", "e", "r", "m", "a", "n", "e", "n", "t">>), Plus(SpaceCh), Lit(<<"A", "d", "d", "r", "e", "s", "s">>), Star(SpaceCh), Plus(Seps),
          Grp(1, Rep(AnyCh, 10, 300))>>)

\* parser.py:153  Place\s+of\s+Occurrence\s*[:\-\s]+(.{5,200})
PlacePattern ==
    Cat(<<Lit(<<"P", "l", "a", "c", "e">>), Plus(SpaceCh), Lit(<<"o", "f">>), Plus(SpaceCh), Lit(<<"O", "c", "c", "u", "r", "r", "e", "n", "c", "e">>), Star(SpaceCh),
          Plus(Seps), Grp(1, Rep(AnyCh, 5, 200))>>)

ContentsTail == Cat(<<Star(SpaceCh), Plus(Seps), Grp(1, Rep(AnyCh, 20, 4000)), Eol>>)

\* parser.py:158-163
ContentsPatterns ==
    << Cat(<<Lit(<<"C", "o", "m", "p", "l", "a", "i", "n", "t">>), Star(SpaceCh), Lit(<<"D", "e", "t", "a", "i", "l", "s">>), ContentsTail>>),
       Cat(<<Lit(<<"C", "o", "m", "p", "l", "a", "i", "n", "t">>), ContentsTail>>),
       Cat(<<Lit(<<"D", "e", "t", "a", "i", "l", "s">>), ContentsTail>>),
       Cat(<<Lit(<<"F", "i", "r", "s", "t">>), Star(SpaceCh), Lit(<<"I", "n", "f", "o", "r", "m", "a", "t", "i", "o", "n">>), Star(SpaceCh), Lit(<<"R", "e", "p", "o", "r", "t">>),
             ContentsTail>>) >>

\* parser.py:174  Investigating\s+Officer\s*[:\-\s]+([A-Za-z\s.]+)
OfficerPattern ==
    Cat(<<Lit(<<"I", "n", "v", "e", "s", "t", "i", "g", "a", "t", "i", "n", "g">>), Plus(SpaceCh), Lit(<<"O", "f", "f", "i", "c", "e", "r">>), Star(SpaceCh), Plus(Seps),
          Grp(1, Plus(NameCh))>>)

\* parser.py:178  (SI|ASI|Inspector|Sub\-Inspector|Sub Inspector|Constable)\b
RankPattern ==
    Cat(<<Grp(1, Alt(<<Lit(<<"S", "I">>), Lit(<<"A", "S", "I">>), Lit(<<"I", "n", "s", "p", "e", "c", "t", "o", "r">>), Lit(<<"S", "u", "b", "-", "I", "n", "s", "p", "e", "c", "t", "o", "r">>), Lit(<<"S", "u", "b", " ", "I", "n", "s", "p", "e", "c", "t", "o", "r">>),
                       Lit(<<"C", "o", "n", "s", "t", "a", "b", "l", "e">>)>>)), WordB>>)

\* parser.py:183  (km|m)\s*(?:from|from the)\s*(?:PS|police station)\b(.{0,80})
DistancePattern ==
    Cat(<<Grp(1, Alt(<<Lit(<<"k", "m">>), Lit(<<"m">>)>>)), Star(SpaceCh), Alt(<<Lit(<<"f", "r", "o", "m">>), Lit(<<"f", "r", "o", "m", " ", "t", "h", "e">>)>>),
          Star(SpaceCh), Alt(<<Lit(<<"P", "S">>), Lit(<<"p", "o", "l", "i", "c", "e", " ", "s", "t", "a", "t", "i", "o", "n">>)>>), WordB,
          Grp(2, Rep(AnyCh, 0, 80))>>)

\* parser.py:188  (\d+)\s+accused
AccusedPattern == Cat(<<Grp(1, Plus(DigitCh)), Plus(SpaceCh), Lit(<<"a", "c", "c", "u", "s", "e", "d">>)>>)

IM == Flags(TRUE, TRUE, FALSE)      \* re.IGNORECASE | re.MULTILINE
IC == Flags(TRUE, FALSE, FALSE)     \* re.IGNORECASE
ICS == Flags(TRUE, FALSE, TRUE)     \* re.IGNORECASE | re.DOTALL

\* first_search (parser.py:64-69): the match of the first pattern that matches.
RECURSIVE FirstSearchFrom(_, _, _)
FirstSearchFrom(patterns, k, s) ==
    IF k > Len(patterns) THEN NoMatch
    ELSE LET m == Search(patterns[k], s, IM)
         IN  IF m.found THEN m ELSE FirstSearchFrom(patterns, k + 1, s)

first_search(patterns, s) == FirstSearchFrom(patterns, 1, s)

\* s[:n]
Take(s, n) == IF Len(s) <= n THEN s ELSE SubSeq(s, 1, n)

Min(a, b) == IF a <= b THEN a ELSE b

\* fields[name] = value if the match exists
SetIf(fields, m, name, value) ==
    IF m.found THEN [fields EXCEPT ![name] = value] ELSE fields

\* parser.py:100-102
DistrictValue(txt, m) == Strip(Group(txt, m, 1))

\* parser.py:157-171
ContentsValue(txt) ==
    LET m == first_search(ContentsPatterns, txt)
        lines == SplitLines(txt)
    IN  IF m.found THEN Take(Strip(Group(txt, m, 1)), 5000)
        ELSE IF Len(lines) > 10
             THEN Take(Join(SubSeq(lines, 4, Min(30, Len(lines))), <<NL>>), 5000)
             ELSE <<>>

\* parser.py:63-192, txt being the cleaned text
ExtractFields(txt) ==
    LET m_fir == first_search(FirNumberPatterns, txt)
        m_date == Search(DatePattern, txt, NoFlags)
        m_time == Search(TimePattern, txt, NoFlags)
        m_ps == first_search(StationPatterns, txt)
        m_dist == Search(DistrictPattern, txt, IC)
        m_year == Search(YearPattern, txt, NoFlags)
        m_gd == first_search(GdPatterns, txt)
        m_mob == Search(MobilePattern, txt, NoFlags)
        m_acts == Search(ActsPattern, txt, IC)
        m_secs == Search(SectionsPattern, txt, IC)
        m_comp == first_search(ComplainantPatterns, txt)
        m_father == Search(FatherPattern, txt, IC)
        m_present == Search(PresentAddressPattern, txt, ICS)
        m_perm == Search(PermanentAddressPattern, txt, ICS)
        m_place == Search(PlacePattern, txt, ICS)
        m_io == Search(OfficerPattern, txt, IC)
        m_rank == Search(RankPattern, txt, IC)
        m_dd == Search(DistancePattern, txt, IC)
        m_ac == Search(AccusedPattern, txt, IC)
        f1 == SetIf(EmptyFields, m_fir, "FIR_Number", Strip(Group(txt, m_fir, 1)))
        f2 == SetIf(f1, m_date, "FIR_Date", Group(txt, m_date, 1))
        f3 == SetIf(f2, m_time, "FIR_Time", Group(txt, m_time, 1))
        f4 == SetIf(f3, m_ps, "Police_Station", Strip(Group(txt, m_ps, 1)))
        f5 == SetIf(f4, m_dist, "District", DistrictValue(txt, m_dist))
        f6 == SetIf(f5, m_year, "Year", Group(txt, m_year, 1))
        f7 == SetIf(f6, m_gd, "GD_Entry_No", Strip(Group(txt, m_gd, 1)))
        f8 == SetIf(f7, m_mob, "Mobile_Number", Group(txt, m_mob, 1))
        f9 == SetIf(f8, m_acts, "Acts", Strip(Group(txt, m_acts, 1)))
        f10 == SetIf(f9, m_secs, "Sections", Strip(Group(txt, m_secs, 1)))
        f11 == SetIf(f10, m_comp, "Complainant_Name", Strip(Group(txt, m_comp, 1)))
        f12 == SetIf(f11, m_father, "Father_Name", Strip(Group(txt, m_father, 1)))
        f13 == SetIf(f12, m_present, "Present_Address",
                     Strip(Split(Group(txt, m_present, 1), NL)[1]))
        f14 == SetIf(f13, m_perm, "Permanent_Address",
                     Strip(Split(Group(txt, m_perm, 1), NL)[1]))
        f15 == SetIf(f14, m_place, "Place_of_Occurrence",
                     Strip(Split(Group(txt, m_place, 1), NL)[1]))
        f16 == [f15 EXCEPT !["FIR_Contents"] = ContentsValue(txt)]
        f17 == SetIf(f16, m_io, "Investigating_Officer", Strip(Group(txt, m_io, 1)))
        f18 == SetIf(f17, m_rank, "Rank", Group(txt, m_rank, 1))
        f19 == SetIf(f18, m_dd, "Direction_Distance_from_PS", Group(txt, m_dd, 0))
        f20 == SetIf(f19, m_ac, "Accused_Count", Group(txt, m_ac, 1))
    IN  f20

\* F(v), v being evaluated once, before F is applied to it.
ByValue(F(_), v) == CHOOSE r \in { F(x) : x \in {v} } : TRUE

parse_fir_fields(text) == ByValue(ExtractFields, clean_text(PyStr(text)))

ParseIdle ==
    /\ pf_pc = "idle"
    /\ pf_text = <<>>
    /\ pf_fields = EmptyFields

-----------------------------------------------------------------------------
(* OCR engine results (the external rapidocr engine, ocr_engine.py:150-156) *)

\* A box is absent, unusable (its points cannot be read as numbers), or a
\* polygon: a list of [x, y] points.
NoBox == [kind |-> "none", pts |-> <<>>]
BadBox == [kind |-> "bad", pts |-> <<>>]
Poly(pts) == [kind |-> "poly", pts |-> pts]

Boxes ==
    { NoBox, BadBox,
      Poly(<< <<1, 0>>, <<3, 0>>, <<3, 1>>, <<1, 1>> >>),     \* top 0, left 1
      Poly(<< <<1, 1>>, <<3, 1>>, <<3, 2>>, <<1, 2>> >>),     \* top 1, left 1
      Poly(<< <<2, 2>>, <<0, 1>>, <<2, 1>>, <<0, 2>> >>) }    \* top 1, left 0

\* Recognized texts: empty, whitespace only, and a visible glyph.
Texts == { <<>>, <<" ">>, <<"a">> }

Items == [box : Boxes, text : Texts]

RECURSIVE SeqsUpTo(_, _)
SeqsUpTo(S, n) ==
    IF n = 0 THEN { <<>> }
    ELSE LET shorter == SeqsUpTo(S, n - 1)
         IN  shorter \cup { Append(q, x) : q \in { r \in shorter : Len(r) = n - 1 }, x \in S }

\* What engine(image) does for one page: it raises, or returns a list of items.
PageResults ==
    { [raises |-> TRUE, items |-> <<>>] }
        \cup { [raises |-> FALSE, items |-> its] : its \in SeqsUpTo(Items, MaxItems) }

-----------------------------------------------------------------------------
(* run_ocr_on_images: one page *)

None == <<>>

\* ocr_engine.py:174-185: (top, left) of a box; None when absent or unusable.
BoxTop(box) ==
    IF box.kind = "poly" /\ box.pts # <<>>
    THEN <<MinOf([i \in 1..Len(box.pts) |-> box.pts[i][2]])>> ELSE None

BoxLeft(box) ==
    IF box.kind = "poly" /\ box.pts # <<>>
    THEN <<MinOf([i \in 1..Len(box.pts) |-> box.pts[i][1]])>> ELSE None

\* ocr_engine.py:160-187: the (top, left, text) tuples of the items with text.
RECURSIVE PositionedLines(_)
PositionedLines(items) ==
    IF items = <<>> THEN <<>>
    ELSE LET item == Head(items)
             rest == PositionedLines(Tail(items))
         IN  IF item.text = <<>> THEN rest
             ELSE <<[top |-> BoxTop(item.box), left |-> BoxLeft(item.box),
                     text |-> item.text]>> \o rest

\* The sort key of ocr_engine.py:126-129.
SortKey(t) ==
    << IF t.top # None THEN t.top[1] ELSE 0, IF t.left # None THEN t.left[1] ELSE 0 >>

KeyLeq(a, b) == a[1] < b[1] \/ (a[1] = b[1] /\ a[2] <= b[2])

\* Stable insertion: x goes after every element whose key is <= its own.
RECURSIVE InsertSorted(_, _)
InsertSorted(sorted, x) ==
    IF sorted = <<>> THEN <<x>>
    ELSE IF KeyLeq(SortKey(Head(sorted)), SortKey(x))
         THEN <<Head(sorted)>> \o InsertSorted(Tail(sorted), x)
         ELSE <<x>> \o sorted

RECURSIVE StableSort(_, _)
StableSort(items, acc) ==
    IF items = <<>> THEN acc ELSE StableSort(Tail(items), InsertSorted(acc, Head(items)))

\* A sort that forgets the key: the items stay in the engine's order.
sort_boxes_unsorted(items) == items

\* _sort_boxes_top_to_bottom: sorted() is stable.
sort_boxes_top_to_bottom(items) == StableSort(items, <<>>)

\* ocr_engine.py:189-190
PageTextLines(items) ==
    LET sorted == sort_boxes_top_to_bottom(PositionedLines(items))
    IN  [i \in 1..Len(sorted) |-> sorted[i].text]

\* One iteration of the loop at ocr_engine.py:148-198 on all_lines: a page
\* whose OCR raises appends nothing, not even the page separator.
OcrPageLines(lines, res) ==
    IF res.raises THEN lines ELSE lines \o PageTextLines(res.items) \o << <<FF>> >>

\* ocr_engine.py:200
FullText(lines) == Strip(Join(lines, <<NL>>))

NonEmptyCount(items) == Cardinality({ i \in 1..Len(items) : items[i].text # <<>> })

OcrIdle ==
    /\ ocr_pc = "idle"
    /\ n_images = 0
    /\ page_idx = 0
    /\ all_lines = <<>>
    /\ positioned_lines = <<>>
    /\ full_text = <<>>
    /\ line_page = <<>>
    /\ n_nonempty = 0
    /\ n_pages_ok = 0

-----------------------------------------------------------------------------
(* run_ocr_on_images and process_pdf as functions of what the collaborators do
   for one document *)

\* The loop of ocr_engine.py:148-198 over the pages from page k on.
RECURSIVE AllLinesFrom(_, _, _)
AllLinesFrom(pages, k, lines) ==
    IF k > Len(pages) THEN lines
    ELSE AllLinesFrom(pages, k + 1, OcrPageLines(lines, pages[k]))

\* run_ocr_on_images(images), pages[k] being what engine(images[k]) does.
run_ocr_on_images(pages) ==
    IF pages = <<>> THEN <<>> ELSE FullText(AllLinesFrom(pages, 1, <<>>))

NoImagesMsg == "No images converted from PDF. Possible corrupt/empty file or Poppler issue."
EmptyTextMsg == "OCR returned empty text."
ImportErrorMsg == "No module named 'rapidocr_onnxruntime'"

\* The test of main.py:53 made never to fire.
TextIsEmptyNever(text) == FALSE

\* main.py:53: not text or not text.strip()
TextIsEmpty(text) == text = <<>> \/ Strip(text) = <<>>

\* A document: what convert_pdf_to_images and the OCR engine do for it (pages is
\* empty when rasterization fails: convert_pdf_to_images returns [] and never
\* raises), and a fault that strikes inside the try block after OCR, with the
\* exception's message.
Doc(pages, raises, msg) == [pages |-> pages, fault |-> [raises |-> raises, msg |-> msg]]

\* main.py:53-64, text being what run_ocr_on_images returned.
ProcessOcrText(idx, doc, text) ==
    LET failed(err) == [Filename |-> idx, Status |-> "FAILED", Error |-> err]
    IN  IF TextIsEmpty(text)
        THEN [result |-> failed(EmptyTextMsg), inst |-> TRUE, parsed |-> FALSE]
        ELSE IF doc.fault.raises
        THEN \* caught at main.py:66: Error = str(e)
             [result |-> failed(doc.fault.msg), inst |-> TRUE, parsed |-> TRUE]
        ELSE [result |-> parse_fir_fields(text)
                            @@ [Filename |-> idx, Status |-> "SUCCESS", Error |-> ""],
              inst |-> TRUE, parsed |-> TRUE]

\* process_pdf(pdf_files[idx]) in a worker whose _rapid_ocr_instance is set iff
\* inst.  Yields the returned dict, the worker's instance afterwards and
\* whether parse_fir_fields was called.
process_pdf(idx, doc, inst, avail) ==
    LET failed(err) == [Filename |-> idx, Status |-> "FAILED", Error |-> err]
    IN  IF doc.pages = <<>>
        THEN [result |-> failed(NoImagesMsg), inst |-> inst, parsed |-> FALSE]
        ELSE IF ~inst /\ ~avail
        THEN \* _get_rapid_ocr raises; caught at main.py:66
             [result |-> failed(ImportErrorMsg), inst |-> FALSE, parsed |-> FALSE]
        ELSE ByValue(LAMBDA text : ProcessOcrText(idx, doc, text),
                     run_ocr_on_images(doc.pages))

\* main.py:86 with the test dropped.
NoPdfFilesNever(files) == FALSE

\* main.py:86: not pdf_files
NoPdfFiles(files) == files = <<>>

\* results.append(res) that loses a FAILED result.
CollectDropFailed(rs, res) == IF res.Status = "FAILED" THEN rs ELSE Append(rs, res)

\* main.py:102
Collect(rs, res) == Append(rs, res)

\* main.py:94 (the cap on the pool size)
PoolCap == 4

NumProcesses == Min(cpu_count, PoolCap)

BatchIdle ==
    /\ main_pc = "idle"
    /\ cpu_count = 1
    /\ ocr_available = TRUE
    /\ pdf_files = <<>>
    /\ task_next = 1
    /\ workers = <<>>
    /\ outbox = <<>>
    /\ results = <<>>
    /\ excel_calls = <<>>
    /\ output_file = <<>>
    /\ parse_called = {}

-----------------------------------------------------------------------------
(* _get_rapid_ocr (ocr_engine.py:100-114) and the module globals it guards *)

\* ocr_engine.py:13-14: the state of a freshly imported module.
LockIdle ==
    /\ rapid_ocr_instance = None
    /\ rapid_ocr_lock = "free"
    /\ threads = <<>>
    /\ n_constructed = 0
    /\ returns = {}

-----------------------------------------------------------------------------
(* SpecOcr: run_ocr_on_images on a non-empty list of page images, the engine
   already loaded *)

OcrInit ==
    /\ n_images \in 1..MaxPages
    /\ ocr_pc = "loop"
    /\ page_idx = 0
    /\ all_lines = <<>>
    /\ positioned_lines = <<>>
    /\ full_text = <<>>
    /\ line_page = <<>>
    /\ n_nonempty = 0
    /\ n_pages_ok = 0
    /\ BatchIdle /\ CleanIdle /\ ParseIdle /\ LockIdle

\* ocr_engine.py:148-196: engine(image) returns and the page is appended.
OcrPage ==
    /\ ocr_pc = "loop"
    /\ page_idx < n_images
    /\ \E res \in PageResults :
        /\ ~res.raises
        /\ all_lines' = OcrPageLines(all_lines, res)
        /\ positioned_lines' = sort_boxes_top_to_bottom(PositionedLines(res.items))
        /\ line_page' = line_page \o [i \in 1..(NonEmptyCount(res.items) + 1) |-> page_idx + 1]
        /\ n_nonempty' = n_nonempty + NonEmptyCount(res.items)
    /\ n_pages_ok' = n_pages_ok + 1
    /\ page_idx' = page_idx + 1
    /\ UNCHANGED <<ocr_pc, n_images, full_text, batchVars, cleanVars, parseVars, lockVars>>

\* ocr_engine.py:197-198: engine(image) raises; the page is logged and skipped.
OcrPageRaises ==
    /\ ocr_pc = "loop"
    /\ page_idx < n_images
    /\ \E res \in PageResults :
        /\ res.raises
        /\ all_lines' = OcrPageLines(all_lines, res)
    /\ page_idx' = page_idx + 1
    /\ UNCHANGED <<ocr_pc, n_images, positioned_lines, full_text, line_page,
                   n_nonempty, n_pages_ok, batchVars, cleanVars, parseVars, lockVars>>

\* ocr_engine.py:200-202
OcrReturn ==
    /\ ocr_pc = "loop"
    /\ page_idx = n_images
    /\ full_text' = FullText(all_lines)
    /\ ocr_pc' = "done"
    /\ UNCHANGED <<n_images, page_idx, all_lines, positioned_lines, line_page,
                   n_nonempty, n_pages_ok, batchVars, cleanVars, parseVars, lockVars>>

OcrNext == OcrPage \/ OcrPageRaises \/ OcrReturn

SpecOcr == OcrInit /\ [][OcrNext]_vars

-----------------------------------------------------------------------------
(* Properties of run_ocr_on_images *)

\* The lines of a text: none for the empty text, else its pieces between line feeds.
TextLines(s) == IF s = <<>> THEN <<>> ELSE Split(s, NL)

NonMarkerLineCount(s) ==
    Cardinality({ i \in 1..Len(TextLines(s)) : TextLines(s)[i] # <<FF>> })

\* The key the reading order is stated in: (top-most y, left-most x) of the
\* polygon, (0, 0) for an item without a usable polygon.
ReadingKey(t) == IF t.top = None \/ t.left = None THEN <<0, 0>> ELSE <<t.top[1], t.left[1]>>

PageTexts(pl) == [i \in 1..Len(pl) |-> pl[i].text]

\* C4: when run_ocr_on_images has returned, the number of lines of the returned
\* text, page-break markers not counted, equals the number of OCR items with
\* non-empty text.
C4_LineCountEqualsNonEmptyItems ==
    ocr_pc = "done" => NonMarkerLineCount(full_text) = n_nonempty

\* C5: within the page, the lines are in non-decreasing order of the key
\* (top y, left x), an item without a usable polygon taking (0, 0), so such an
\* item precedes every item of the page whose top y is above 0; the lines of
\* all_lines are those of the pages in page order, each page's block being its
\* sorted lines followed by the separator.
C5_ReadingOrder ==
    /\ \A i, j \in 1..Len(positioned_lines) :
          i < j => KeyLeq(ReadingKey(positioned_lines[i]), ReadingKey(positioned_lines[j]))
    /\ \A i, j \in 1..Len(positioned_lines) :
          (/\ positioned_lines[i].top = None
           /\ positioned_lines[j].top # None
           /\ positioned_lines[j].top[1] > 0) => i < j
    /\ Len(line_page) = Len(all_lines)
    /\ \A i, j \in 1..Len(line_page) : i < j => line_page[i] <= line_page[j]
    /\ n_pages_ok > 0 =>
          /\ Len(all_lines) >= Len(positioned_lines) + 1
          /\ SubSeq(all_lines, Len(all_lines) - Len(positioned_lines), Len(all_lines))
                = PageTexts(positioned_lines) \o << <<FF>> >>

\* A second page has been reconstructed whose item without geometry was put
\* before an item whose polygon lies below the top edge.
C5_Witness ==
    /\ n_pages_ok = 2
    /\ Len(positioned_lines) = 2
    /\ positioned_lines[1].top = None
    /\ positioned_lines[2].top # None
    /\ positioned_lines[2].top[1] > 0

\* C6: the text returned for a document of n pages holds exactly n page-break
\* markers.
C6_OneMarkerPerPage ==
    ocr_pc = "done" => Count(full_text, FF) = n_images

-----------------------------------------------------------------------------
(* SpecClean: clean_text applied to an input, then to its own result *)

\* Building blocks of the inputs: the pieces of a CID artifact, a hyphen, the
\* line endings, a blank, a letter and the page separator of run_ocr_on_images.
Tokens ==
    { <<"(", "c", "i", "d", ":">>, <<"1", ")">>, <<"-">>, <<NL>>, <<CR>>, <<" ">>,
      <<"a">>, <<FF>> }

CleanInputs ==
    { PyNone } \cup { PyStr(Join(toks, <<>>)) : toks \in SeqsUpTo(Tokens, MaxTokens) }

CleanInit ==
    /\ cl_input \in CleanInputs
    /\ cl_out = <<>>
    /\ BatchIdle /\ OcrIdle /\ ParseIdle /\ LockIdle

\* clean_text(text), the text being the input or the previous result.
CleanText ==
    /\ Len(cl_out) < 2
    /\ cl_out' = Append(cl_out,
                        clean_text(IF cl_out = <<>> THEN cl_input
                                   ELSE PyStr(cl_out[Len(cl_out)])))
    /\ UNCHANGED <<cl_input, batchVars, ocrVars, parseVars, lockVars>>

CleanNext == CleanText

SpecClean == CleanInit /\ [][CleanNext]_vars

\* C7: clean_text is idempotent: cleaning a cleaned text returns it unchanged.
C7_CleanIdempotent ==
    Len(cl_out) = 2 => cl_out[2] = cl_out[1]

HasCidArtifact(s) == Search(CidPattern, s, NoFlags).found

IsBlankLine(l) == Strip(l) = <<>>

\* C8: the output of clean_text holds no "(cid:<digits>)", no carriage return,
\* and neither starts nor ends with a blank line; for a None or empty input it
\* is the empty string.
C8_CleanOutputInvariant ==
    Len(cl_out) >= 1 =>
        LET out == cl_out[1]
            lines == Split(out, NL)
        IN  /\ ~HasCidArtifact(out)
            /\ \A i \in 1..Len(out) : out[i] # CR
            /\ out # <<>> => ~IsBlankLine(lines[1]) /\ ~IsBlankLine(lines[Len(lines)])
            /\ (cl_input.none \/ cl_input.s = <<>>) => out = <<>>

-----------------------------------------------------------------------------
(* SpecParse: parse_fir_fields on texts made of a few labelled lines *)

ParseLines ==
    { <<"F", "I", "R", " ", "N", "o", ":", " ", "1", "4", "5", "/", "2", "0", "2", "3">>,
      <<"D", "i", "s", "t", "r", "i", "c", "t", ":", " ", "C", "e", "n", "t", "r", "a", "l">>,
      <<"D", "a", "t", "e", ":", " ", "1", "2", "/", "0", "4", "/", "2", "0", "2", "3">>,
      <<"P", ".", "S", ".", " ", "K", "o", "t", "w", "a", "l", "i">> }

ParseInputs == { Join(ls, <<NL>>) : ls \in SeqsUpTo(ParseLines, MaxLines) }

ParseInit ==
    /\ pf_pc = "call"
    /\ pf_text \in ParseInputs
    /\ pf_fields = EmptyFields
    /\ BatchIdle /\ OcrIdle /\ CleanIdle /\ LockIdle

ParseFirFields ==
    /\ pf_pc = "call"
    /\ pf_fields' = parse_fir_fields(pf_text)
    /\ pf_pc' = "returned"
    /\ UNCHANGED <<pf_text, batchVars, ocrVars, cleanVars, lockVars>>

ParseNext == ParseFirFields

SpecParse == ParseInit /\ [][ParseNext]_vars

\* "FIR No: 145/2023\nDistrict: Central\nDate: 12/04/2023"
ScenarioText ==
    <<"F", "I", "R", " ", "N", "o", ":", " ", "1", "4", "5", "/", "2", "0", "2", "3", NL,
      "D", "i", "s", "t", "r", "i", "c", "t", ":", " ", "C", "e", "n", "t", "r", "a", "l", NL,
      "D", "a", "t", "e", ":", " ", "1", "2", "/", "0", "4", "/", "2", "0", "2", "3">>

\* C10: parse_fir_fields of the scenario text returns all 26 schema keys, with
\* FIR_Number "145/2023", District "Central", FIR_Date "12/04/2023" and every
\* other field empty.
C10_ScenarioRecord ==
    (pf_pc = "returned" /\ pf_text = ScenarioText) =>
        /\ DOMAIN pf_fields = Range(FieldNames)
        /\ Cardinality(DOMAIN pf_fields) = 26
        /\ pf_fields["FIR_Number"] = <<"1", "4", "5", "/", "2", "0", "2", "3">>
        /\ pf_fields["District"] = <<"C", "e", "n", "t", "r", "a", "l">>
        /\ pf_fields["FIR_Date"] = <<"1", "2", "/", "0", "4", "/", "2", "0", "2", "3">>
        /\ \A k \in DOMAIN pf_fields :
              k \notin {"FIR_Number", "District", "FIR_Date"} => pf_fields[k] = <<>>

-----------------------------------------------------------------------------
(* Spec: main.py.  main globs the input directory, fans the paths out to a
   pool of worker processes with imap, collects the results in submission
   order and saves them once. *)

GlyphItem == [box |-> NoBox, text |-> <<"a">>]
EmptyPage == [raises |-> FALSE, items |-> <<>>]
GlyphPage == [raises |-> FALSE, items |-> <<GlyphItem>>]
RaisingPage == [raises |-> TRUE, items |-> <<>>]

\* The documents a batch is drawn from.
DocKinds ==
    { Doc(<<>>, FALSE, ""),                          \* rasterization fails
      Doc(<<EmptyPage>>, FALSE, ""),                 \* OCR finds nothing
      Doc(<<GlyphPage>>, FALSE, ""),                 \* a readable page
      Doc(<<EmptyPage, GlyphPage>>, FALSE, ""),      \* a blank page, then a readable one
      Doc(<<RaisingPage, GlyphPage>>, FALSE, ""),    \* the engine raises on page 1
      Doc(<<GlyphPage>>, TRUE, "boom"),              \* a fault after OCR
      Doc(<<GlyphPage>>, TRUE, "") }                 \* a fault whose message is empty

Init ==
    /\ main_pc = "start"
    /\ cpu_count \in 1..MaxCpus
    /\ ocr_available \in BOOLEAN
    /\ pdf_files \in SeqsUpTo(DocKinds, MaxDocs)
    /\ task_next = 1
    /\ workers = <<>>
    /\ outbox = <<>>
    /\ results = <<>>
    /\ excel_calls = <<>>
    /\ output_file = <<>>
    /\ parse_called = {}
    /\ OcrIdle /\ CleanIdle /\ ParseIdle /\ LockIdle

\* main.py:85-89: no PDF found: main returns.
MainNoInput ==
    /\ main_pc = "start"
    /\ NoPdfFiles(pdf_files)
    /\ main_pc' = "done"
    /\ UNCHANGED <<cpu_count, ocr_available, pdf_files, task_next, workers, outbox,
                   results, excel_calls, output_file, parse_called>>
    /\ UNCHANGED <<ocrVars, cleanVars, parseVars, lockVars>>

\* main.py:91-101: the pool is created, each worker a fresh process.
MainStartPool ==
    /\ main_pc = "start"
    /\ ~NoPdfFiles(pdf_files)
    /\ workers' = [w \in 1..NumProcesses |-> [task |-> 0, instance |-> FALSE]]
    /\ main_pc' = "pool"
    /\ UNCHANGED <<cpu_count, ocr_available, pdf_files, task_next, outbox,
                   results, excel_calls, output_file, parse_called>>
    /\ UNCHANGED <<ocrVars, cleanVars, parseVars, lockVars>>

\* An idle worker takes the next path of imap's task queue.
WorkerTake(w) ==
    /\ main_pc = "pool"
    /\ workers[w].task = 0
    /\ task_next <= Len(pdf_files)
    /\ workers' = [workers EXCEPT ![w].task = task_next]
    /\ task_next' = task_next + 1
    /\ UNCHANGED <<main_pc, cpu_count, ocr_available, pdf_files, outbox,
                   results, excel_calls, output_file, parse_called>>
    /\ UNCHANGED <<ocrVars, cleanVars, parseVars, lockVars>>

\* The worker runs process_pdf on its path and sends the result back.
WorkerFinish(w) ==
    /\ main_pc = "pool"
    /\ workers[w].task # 0
    /\ \E run \in { process_pdf(workers[w].task, pdf_files[workers[w].task],
                                 workers[w].instance, ocr_available) } :
          /\ outbox' = outbox @@ (workers[w].task :> run.result)
          /\ workers' = [workers EXCEPT ![w] = [task |-> 0, instance |-> run.inst]]
          /\ parse_called' = IF run.parsed THEN parse_called \cup {workers[w].task}
                                           ELSE parse_called
    /\ UNCHANGED <<main_pc, cpu_count, ocr_available, pdf_files, task_next,
                   results, excel_calls, output_file>>
    /\ UNCHANGED <<ocrVars, cleanVars, parseVars, lockVars>>

\* main.py:101-102: imap yields the result of the next path in submission
\* order once it is there, and main appends it.
MainCollect ==
    /\ main_pc = "pool"
    /\ Len(results) + 1 \in DOMAIN outbox
    /\ results' = Collect(results, outbox[Len(results) + 1])
    /\ outbox' = [i \in DOMAIN outbox \ {Len(results) + 1} |-> outbox[i]]
    /\ UNCHANGED <<main_pc, cpu_count, ocr_available, pdf_files, task_next, workers,
                   excel_calls, output_file, parse_called>>
    /\ UNCHANGED <<ocrVars, cleanVars, parseVars, lockVars>>

\* main.py:100-103: imap is exhausted, the with block ends the pool.
MainPoolExit ==
    /\ main_pc = "pool"
    /\ task_next > Len(pdf_files)
    /\ \A w \in DOMAIN workers : workers[w].task = 0
    /\ outbox = <<>>
    /\ main_pc' = "save"
    /\ UNCHANGED <<cpu_count, ocr_available, pdf_files, task_next, workers, outbox,
                   results, excel_calls, output_file, parse_called>>
    /\ UNCHANGED <<ocrVars, cleanVars, parseVars, lockVars>>

\* main.py:106 and save_to_excel (excel_writer.py:6-40): an empty list writes
\* nothing; otherwise the rows are written, unless writing raises, which
\* save_to_excel swallows.
MainSave ==
    /\ main_pc = "save"
    /\ excel_calls' = Append(excel_calls, results)
    /\ \E written \in BOOLEAN :
          output_file' = IF results # <<>> /\ written THEN results ELSE output_file
    /\ main_pc' = "done"
    /\ UNCHANGED <<cpu_count, ocr_available, pdf_files, task_next, workers, outbox,
                   results, parse_called>>
    /\ UNCHANGED <<ocrVars, cleanVars, parseVars, lockVars>>

Next ==
    \/ MainNoInput
    \/ MainStartPool
    \/ \E w \in DOMAIN workers : WorkerTake(w)
    \/ \E w \in DOMAIN workers : WorkerFinish(w)
    \/ MainCollect
    \/ MainPoolExit
    \/ MainSave

Spec == Init /\ [][Next]_vars

-----------------------------------------------------------------------------
(* Properties of the batch run *)

\* Some page of the document gave an item with a visible character.
HasReadableText(doc) ==
    \E p \in 1..Len(doc.pages) :
        /\ ~doc.pages[p].raises
        /\ \E k \in 1..Len(doc.pages[p].items) : Strip(doc.pages[p].items[k].text) # <<>>

\* All pages together gave zero text lines.
NoTextLines(doc) ==
    \A p \in 1..Len(doc.pages) :
        doc.pages[p].raises \/ \A k \in 1..Len(doc.pages[p].items) :
                                    doc.pages[p].items[k].text = <<>>

\* Some page for which the engine returned gave no items.
HasEmptyPage(doc) ==
    \E p \in 1..Len(doc.pages) : ~doc.pages[p].raises /\ doc.pages[p].items = <<>>

\* The status a document earns by its own content in this run.
OwnStatus(doc) ==
    IF /\ doc.pages # <<>>
       /\ ocr_available
       /\ HasReadableText(doc)
       /\ ~doc.fault.raises
    THEN "SUCCESS" ELSE "FAILED"

\* Some stage of the document's pipeline failed: no page rasterized, the OCR
\* model not loadable, the engine raising on a page, no OCR text, or a fault
\* during field extraction.
StageFailed(doc) ==
    \/ doc.pages = <<>>
    \/ ~ocr_available
    \/ \E p \in 1..Len(doc.pages) : doc.pages[p].raises
    \/ ~HasReadableText(doc)
    \/ doc.fault.raises

\* The results process_pdf has returned so far, by path.
Returned == [i \in (DOMAIN outbox) \cup (1..Len(results)) |->
                IF i \in DOMAIN outbox THEN outbox[i] ELSE results[i]]

\* C1: the list main collects holds one result per input path: the k-th
\* result is that of the k-th path, so no path is dropped or duplicated, its
\* Status is the one the document earns by its own content whatever its
\* siblings do, and once the pool is done there are as many results as paths.
C1_OneResultPerInput ==
    /\ Len(results) <= Len(pdf_files)
    /\ \A i \in 1..Len(results) :
          /\ results[i].Filename = i
          /\ results[i].Status = OwnStatus(pdf_files[i])
    /\ (main_pc \in {"save", "done"} /\ pdf_files # <<>>) => Len(results) = Len(pdf_files)

\* A batch of three is done: one document raised an unexpected fault and is
\* FAILED, one sibling succeeded and one failed in rasterization.
C1_Witness ==
    /\ main_pc = "done"
    /\ Len(pdf_files) = 3
    /\ Len(results) = 3
    /\ \E i, j, k \in 1..3 :
          /\ i # j /\ j # k /\ i # k
          /\ pdf_files[i].fault.raises /\ results[i].Status = "FAILED"
          /\ results[j].Status = "SUCCESS"
          /\ pdf_files[k].pages = <<>> /\ results[k].Status = "FAILED"

\* C2: whenever a stage of a document's pipeline fails, the result process_pdf
\* returns has Status FAILED and a non-empty Error, and Status is SUCCESS only
\* when no stage failed.
C2_FailedStageGivesFailed ==
    \A i \in DOMAIN Returned :
        /\ StageFailed(pdf_files[i]) =>
              Returned[i].Status = "FAILED" /\ Returned[i].Error # ""
        /\ Returned[i].Status = "SUCCESS" => ~StageFailed(pdf_files[i])

\* C3: for a document with at least one page and the engine at hand: if all
\* pages together give zero text lines the result is FAILED with the
\* empty-OCR-text error and parse_fir_fields was not called for it; a page
\* without items beside a readable one does not make the document fail.
C3_EmptyOcrText ==
    \A i \in DOMAIN Returned :
        (pdf_files[i].pages # <<>> /\ ocr_available) =>
            /\ NoTextLines(pdf_files[i]) =>
                  /\ Returned[i].Status = "FAILED"
                  /\ Returned[i].Error = EmptyTextMsg
                  /\ i \notin parse_called
            /\ (/\ HasEmptyPage(pdf_files[i])
                /\ HasReadableText(pdf_files[i])
                /\ ~pdf_files[i].fault.raises) =>
                  /\ Returned[i].Status = "SUCCESS"
                  /\ i \in parse_called

\* process_pdf has returned for a document whose only page gave no items and
\* for one with a page without items followed by a readable page.
C3_Witness ==
    /\ ocr_available
    /\ \E i, j \in DOMAIN Returned :
          /\ pdf_files[i].pages # <<>> /\ NoTextLines(pdf_files[i])
          /\ Returned[i].Error = EmptyTextMsg
          /\ HasEmptyPage(pdf_files[j]) /\ HasReadableText(pdf_files[j])
          /\ Returned[j].Status = "SUCCESS"

\* C9: save_to_excel is called at most once, only when every path's result
\* has been collected, with the whole result list; when no PDF is found it is
\* not called and no output file is written.
C9_SaveOnceAfterAll ==
    /\ Len(excel_calls) <= 1
    /\ excel_calls # <<>> =>
          /\ main_pc = "done"
          /\ pdf_files # <<>>
          /\ Len(results) = Len(pdf_files)
          /\ outbox = <<>>
          /\ \A w \in DOMAIN workers : workers[w].task = 0
          /\ excel_calls[1] = results
    /\ output_file # <<>> => excel_calls # <<>> /\ output_file = excel_calls[1]
    /\ pdf_files = <<>> => excel_calls = <<>> /\ output_file = <<>>

\* A run over three documents has saved its three results in one call.
C9_Witness ==
    /\ main_pc = "done"
    /\ Len(pdf_files) = 3
    /\ Len(excel_calls) = 1
    /\ Len(excel_calls[1]) = 3
    /\ output_file = results

-----------------------------------------------------------------------------
(* SpecLock: the threads of one worker process calling _get_rapid_ocr, each
   call after the other within a thread, the calls of different threads
   interleaved statement by statement. *)

\* The second test, made to pass whatever the instance is.
InnerCheckAlways(inst) == TRUE

\* ocr_engine.py:106: _rapid_ocr_instance is None
OuterCheckIsNone(inst) == inst = None

\* ocr_engine.py:108: _rapid_ocr_instance is None, under the lock
InnerCheckIsNone(inst) == inst = None

\* The object the k-th successful RapidOCR() call creates.
RapidOCR(k) == [id |-> k]

AtPc(t, pc) == t \in DOMAIN threads /\ threads[t].pc = pc

Goto(t, pc) == threads' = [threads EXCEPT ![t].pc = pc]

LockInit ==
    /\ rapid_ocr_instance = None
    /\ rapid_ocr_lock = "free"
    /\ threads \in { [t \in 1..n |-> [pc |-> "idle", calls |-> 0, slow |-> FALSE]] :
                        n \in 1..MaxThreads }
    /\ n_constructed = 0
    /\ returns = {}
    /\ BatchIdle /\ OcrIdle /\ CleanIdle /\ ParseIdle

\* A thread calls _get_rapid_ocr().
GetCall(t) ==
    /\ AtPc(t, "idle")
    /\ threads[t].calls < MaxCalls
    /\ threads' = [threads EXCEPT ![t] = [pc |-> "outer_check", calls |-> @.calls + 1,
                                          slow |-> FALSE]]
    /\ UNCHANGED <<rapid_ocr_instance, rapid_ocr_lock, n_constructed, returns>>
    /\ UNCHANGED <<batchVars, ocrVars, cleanVars, parseVars>>

\* ocr_engine.py:106: the test outside the lock.
GetOuterCheck(t) ==
    /\ AtPc(t, "outer_check")
    /\ threads' = [threads EXCEPT ![t] =
                      IF OuterCheckIsNone(rapid_ocr_instance)
                      THEN [@ EXCEPT !.pc = "acquire", !.slow = TRUE]
                      ELSE [@ EXCEPT !.pc = "return"]]
    /\ UNCHANGED <<rapid_ocr_instance, rapid_ocr_lock, n_constructed, returns>>
    /\ UNCHANGED <<batchVars, ocrVars, cleanVars, parseVars>>

\* ocr_engine.py:107: with _rapid_ocr_lock blocks until the lock is free.
GetAcquire(t) ==
    /\ AtPc(t, "acquire")
    /\ rapid_ocr_lock = "free"
    /\ rapid_ocr_lock' = <<t>>
    /\ Goto(t, "inner_check")
    /\ UNCHANGED <<rapid_ocr_instance, n_constructed, returns>>
    /\ UNCHANGED <<batchVars, ocrVars, cleanVars, parseVars>>

\* ocr_engine.py:108: the test under the lock.
GetInnerCheck(t) ==
    /\ AtPc(t, "inner_check")
    /\ Goto(t, IF InnerCheckIsNone(rapid_ocr_instance) THEN "construct" ELSE "release")
    /\ UNCHANGED <<rapid_ocr_instance, rapid_ocr_lock, n_constructed, returns>>
    /\ UNCHANGED <<batchVars, ocrVars, cleanVars, parseVars>>

\* ocr_engine.py:109-112: the import and RapidOCR() return and the global is set.
GetConstruct(t) ==
    /\ AtPc(t, "construct")
    /\ rapid_ocr_instance' = RapidOCR(n_constructed + 1)
    /\ n_constructed' = n_constructed + 1
    /\ Goto(t, "release")
    /\ UNCHANGED <<rapid_ocr_lock, returns>>
    /\ UNCHANGED <<batchVars, ocrVars, cleanVars, parseVars>>

\* ocr_engine.py:110-112: the import or RapidOCR() raises: the with statement
\* releases the lock and the exception leaves _get_rapid_ocr.
GetConstructRaises(t) ==
    /\ AtPc(t, "construct")
    /\ rapid_ocr_lock' = "free"
    /\ Goto(t, "idle")
    /\ UNCHANGED <<rapid_ocr_instance, n_constructed, returns>>
    /\ UNCHANGED <<batchVars, ocrVars, cleanVars, parseVars>>

\* The end of the with block of ocr_engine.py:107.
GetRelease(t) ==
    /\ AtPc(t, "release")
    /\ rapid_ocr_lock' = "free"
    /\ Goto(t, "return")
    /\ UNCHANGED <<rapid_ocr_instance, n_constructed, returns>>
    /\ UNCHANGED <<batchVars, ocrVars, cleanVars, parseVars>>

\* ocr_engine.py:114: return _rapid_ocr_instance
GetReturn(t) ==
    /\ AtPc(t, "return")
    /\ returns' = returns \cup { [thread |-> t, value |-> rapid_ocr_instance,
                                  slow |-> threads[t].slow] }
    /\ Goto(t, "idle")
    /\ UNCHANGED <<rapid_ocr_instance, rapid_ocr_lock, n_constructed>>
    /\ UNCHANGED <<batchVars, ocrVars, cleanVars, parseVars>>

LockNext ==
    \/ \E t \in DOMAIN threads : GetCall(t)
    \/ \E t \in DOMAIN threads : GetOuterCheck(t)
    \/ \E t \in DOMAIN threads : GetAcquire(t)
    \/ \E t \in DOMAIN threads : GetInnerCheck(t)
    \/ \E t \in DOMAIN threads : GetConstruct(t)
    \/ \E t \in DOMAIN threads : GetConstructRaises(t)
    \/ \E t \in DOMAIN threads : GetRelease(t)
    \/ \E t \in DOMAIN threads : GetReturn(t)

SpecLock == LockInit /\ [][LockNext]_vars

\* C11: within one worker, whatever the interleaving of the calls of
\* _get_rapid_ocr, RapidOCR() is successfully constructed at most once, every
\* call that returns yields that one instance, and no returned call yields None.
C11_SingleInstance ==
    /\ n_constructed <= 1
    /\ \A r \in returns : r.value # None /\ r.value = rapid_ocr_instance
    /\ \A r1, r2 \in returns : r1.value = r2.value
    /\ rapid_ocr_instance # None => rapid_ocr_instance = RapidOCR(1) /\ n_constructed = 1

\* Two threads both saw None at the first test, went through the lock, and
\* both have returned, and a later call returned without taking the lock.
C11_Witness ==
    /\ n_constructed = 1
    /\ \E r1, r2, r3 \in returns :
          /\ r1.thread # r2.thread
          /\ r1.slow /\ r2.slow
          /\ ~r3.slow

=============================================================================
